---- MODULE Spec2Model ----
(***************************************************************************)
(* Model of front/src/quiz/util/dto.py of miminet: the DTO layer of the    *)
(* quiz application.  Each function or constructor of the file is an       *)
(* operator or an action; the tables it queries (Network, Answer,          *)
(* QuizSession, SessionQuestion) are variables.                            *)
(*                                                                         *)
(* The file has independent units, so the module has one specification per *)
(* unit, all over the same variables:                                      *)
(*   SpecAvail    is_answer_available                                      *)
(*   SpecCount    calculate_question_count                                 *)
(*   SpecScore    calculate_max_score                                      *)
(*   SpecSection  SectionDto.__init__                                      *)
(*   SpecQuestion QuestionDto.__init__ (with PracticeQuestionDto)          *)
(*   SpecRender   PracticeQuestionDto.__init__, one request at a time      *)
(*   SpecRace     PracticeQuestionDto.__init__, two requests interleaved   *)
(***************************************************************************)
EXTENDS Integers, Sequences, FiniteSets, TLC

VARIABLES
    \* is_answer_available
    section,          \* the Section argument: None or a record
    now,              \* the wall clock, an instant in hours since the epoch (UTC)
    available,        \* what the last call returned, with the instant it read
    \* calculate_question_count
    countSection,     \* the Section argument: meta_description and questions
    questionCount,    \* what the last call returned or raised
    \* calculate_max_score
    requirements,     \* the argument: a tree of dicts, lists and scalars
    maxScore,         \* what the last call returned
    \* SectionDto
    quizSessions,     \* table QuizSession, each row with its SessionQuestion rows
    testRetakeable,   \* Section.test.is_retakeable of the sections' test
    sectionDto,       \* the attributes the last SectionDto construction set
    \* QuestionDto and PracticeQuestionDto
    answers,          \* table Answer
    networks,         \* table Network (committed rows)
    sessionQuestions, \* table SessionQuestion: id -> network_guid (committed)
    questionDto,      \* the attributes the last QuestionDto construction set
    practiceDto,      \* the last PracticeQuestionDto construction: object or exception
    renders,          \* per session-question, the network_guid of each finished render
    procs             \* the requests running PracticeQuestionDto.__init__ step by step

availVars == <<section, now, available>>
countVars == <<countSection, questionCount>>
scoreVars == <<requirements, maxScore>>
sectionVars == <<quizSessions, testRetakeable, sectionDto>>
dbVars == <<networks, sessionQuestions>>
questionVars == <<answers, questionDto>>
renderVars == <<practiceDto, renders>>
raceVars == <<procs>>

vars == <<availVars, countVars, scoreVars, sectionVars, dbVars, questionVars,
          renderVars, raceVars>>

\* Python's None for string-valued fields (guids); other nullable values are
\* options: Null, or Some(x).
None == "None"
Null == [null |-> TRUE]
Some(x) == [null |-> FALSE, v |-> x]
Option(S) == {Null} \cup {Some(x) : x \in S}

Range(f) == {f[x] : x \in DOMAIN f}

(***************************************************************************)
(* is_answer_available (lines 33-48)                                       *)
(***************************************************************************)

\* ZoneInfo("Europe/Moscow"): UTC+3, no daylight saving since 2014.
MoscowOffset == 3

\* Bounds of the inputs: wall-clock hours of thresholds, instants of the clock.
MaxWall == 6
MaxNow == 4

\* UTC offsets (hours) a timezone-aware threshold may carry.
TzOffsets == {-2, 0, MoscowOffset}

\* A datetime is [wall |-> its fields read as hours, tz |-> Null (naive) or
\* Some(UTC offset)].
Datetimes == [wall : 0..MaxWall, tz : Option(TzOffsets)]

\* datetime.now(tz): the current instant, expressed in tz.
DatetimeNow(tz) == [wall |-> now + tz, tz |-> Some(tz)]

\* datetime.replace(tzinfo=tz): same fields, new zone.
Replace(dt, tz) == [wall |-> dt.wall, tz |-> Some(tz)]

AsTimezoneKeepFields(dt, tz) == [wall |-> dt.wall, tz |-> Some(tz)]

\* datetime.astimezone(tz) of an aware datetime: same instant, fields in tz.
AsTimezone(dt, tz) == [wall |-> dt.wall - dt.tz.v + tz, tz |-> Some(tz)]

\* a <= b of two aware datetimes: with the same tzinfo the fields are compared,
\* otherwise the instants.
DatetimeLe(a, b) ==
    IF a.tz = b.tz THEN a.wall <= b.wall
    ELSE a.wall - a.tz.v <= b.wall - b.tz.v

\* is_answer_available(section); a falsy section is Null.
IsAnswerAvailableOf(sec) ==
    IF ~sec.null /\ ~sec.v.results_available_from.null
    THEN LET now_moscow == DatetimeNow(MoscowOffset)
             t == sec.v.results_available_from.v
             results_time == IF t.tz.null
                             THEN Replace(t, MoscowOffset)
                             ELSE AsTimezone(t, MoscowOffset)
         IN  DatetimeLe(results_time, now_moscow)
    ELSE TRUE

AvailSections == Option([results_available_from : Option(Datetimes)])

IsAnswerAvailable ==
    /\ available' = Some([value |-> IsAnswerAvailableOf(section), at |-> now])
    /\ UNCHANGED <<section, now>>
    /\ UNCHANGED <<countVars, scoreVars, sectionVars, dbVars, questionVars,
                   renderVars, raceVars>>

\* Time passes between calls.
ClockTick ==
    /\ now < MaxNow
    /\ now' = now + 1
    /\ UNCHANGED <<section, available>>
    /\ UNCHANGED <<countVars, scoreVars, sectionVars, dbVars, questionVars,
                   renderVars, raceVars>>

(***************************************************************************)
(* calculate_question_count (lines 23-30)                                  *)
(***************************************************************************)

\* A meta_description is a string, here a sequence of tokens with a blank
\* between them: the punctuation, two string literals, two small integer
\* literals, an integer literal of more than 4300 digits, the words the
\* decoder knows and a word it does not know.  The empty sequence is the
\* empty string.
StrTokens == {"\"a\"", "\"b\""}
NumTokens == {"1", "2"}
BigToken == "99..9"
ConstantTokens == {"true", "false", "null"}
FloatTokens == {"NaN", "Infinity", "-Infinity"}
UnknownWord == "x"
Tokens ==
    {"{", "}", ":", ","} \cup StrTokens \cup NumTokens \cup {BigToken}
        \cup ConstantTokens \cup FloatTokens \cup {UnknownWord}

NumValue(tok) == IF tok = "1" THEN 1 ELSE 2

\* Parsed values: int, str, dict, bool, None and the floats nan, inf, -inf.
JInt(n) == [t |-> "int", n |-> n]
JStr(x) == [t |-> "str", x |-> x]
JDict(f) == [t |-> "dict", items |-> f]
JBool(b) == [t |-> "bool", b |-> b]
JNull == [t |-> "NoneType"]
JFloat(x) == [t |-> "float", f |-> x]
EmptyFn == [k \in {} |-> 0]

\* The decoder stops with an exception: JSONDecodeError where the text is not
\* what it expects, ValueError where int() refuses a literal of more than
\* 4300 digits (the default limit of CPython 3.11 and later).
ParseRaise(exc) == [ok |-> FALSE, exc |-> exc]
ParseFail == ParseRaise("JSONDecodeError")
ParseOk(val, next) == [ok |-> TRUE, val |-> val, next |-> next]

\* The value of a word the decoder knows.
WordValue(tok) ==
    CASE tok = "true" -> JBool(TRUE)
      [] tok = "false" -> JBool(FALSE)
      [] tok = "null" -> JNull
      [] tok = "NaN" -> JFloat("nan")
      [] tok = "Infinity" -> JFloat("inf")
      [] tok = "-Infinity" -> JFloat("-inf")

\* dict[key] = val: a repeated key keeps the last value.
DictSet(f, key, val) ==
    [k \in DOMAIN f \cup {key} |-> IF k = key THEN val ELSE f[k]]

\* The decoder of json.loads, scanning s from position i: a number, a string,
\* a known word or an object; ParseMembers scans the members of an object
\* after its first brace or a comma, into f.
RECURSIVE ParseValue(_, _), ParseMembers(_, _, _)
ParseValue(s, i) ==
    IF i > Len(s) THEN ParseFail
    ELSE IF s[i] \in NumTokens THEN ParseOk(JInt(NumValue(s[i])), i + 1)
    ELSE IF s[i] = BigToken THEN ParseRaise("ValueError")
    ELSE IF s[i] \in StrTokens THEN ParseOk(JStr(s[i]), i + 1)
    ELSE IF s[i] \in ConstantTokens \cup FloatTokens
         THEN ParseOk(WordValue(s[i]), i + 1)
    ELSE IF s[i] = "{"
         THEN IF i + 1 <= Len(s) /\ s[i + 1] = "}"
              THEN ParseOk(JDict(EmptyFn), i + 2)
              ELSE ParseMembers(s, i + 1, EmptyFn)
    ELSE ParseFail

ParseMembers(s, i, f) ==
    IF i + 1 > Len(s) \/ s[i] \notin StrTokens \/ s[i + 1] # ":" THEN ParseFail
    ELSE LET r == ParseValue(s, i + 2) IN
         IF ~r.ok THEN r
         ELSE IF r.next > Len(s) THEN ParseFail
         ELSE LET g == DictSet(f, s[i], r.val) IN
              IF s[r.next] = "," THEN ParseMembers(s, r.next + 1, g)
              ELSE IF s[r.next] = "}" THEN ParseOk(JDict(g), r.next + 1)
              ELSE ParseFail

\* json.loads(s): the value, or the exception raised; text after the value
\* is a JSONDecodeError.
JsonLoads(s) ==
    LET r == ParseValue(s, 1) IN
    IF ~r.ok THEN r
    ELSE IF r.next = Len(s) + 1 THEN [ok |-> TRUE, val |-> r.val]
    ELSE ParseFail

RECURSIVE SumInts(_)
SumInts(S) ==
    IF S = {} THEN 0
    ELSE LET k == CHOOSE k \in S : TRUE IN k[2] + SumInts(S \ {k})

\* What a call gives its caller: an int, a float (nan, inf or -inf), or an
\* exception.
Return(x) == [kind |-> "return", value |-> x]
ReturnFloat(x) == [kind |-> "return", float |-> x]
Raise(exc) == [kind |-> "raise", exc |-> exc]

\* The int a value adds to a sum: True is 1, False is 0.
IntOf(v) == IF v.t = "bool" THEN (IF v.b THEN 1 ELSE 0) ELSE v.n

\* The sum of floats that are nan, inf or -inf, with any ints: nan when a
\* nan is among them or both infinities are, else the infinity.
FloatSum(fs) ==
    IF "nan" \in fs \/ {"inf", "-inf"} \subseteq fs THEN "nan"
    ELSE IF "inf" \in fs THEN "inf" ELSE "-inf"

\* sum(meta_data.values()): adding a str, a dict or None to a number raises
\* TypeError; a float among the values makes the sum a float.
SumValues(f) ==
    LET floats == {f[k].f : k \in {k \in DOMAIN f : f[k].t = "float"}}
        ints == {k \in DOMAIN f : f[k].t \in {"int", "bool"}}
    IN  IF \E k \in DOMAIN f : f[k].t \notin {"int", "bool", "float"}
        THEN Raise("TypeError")
        ELSE IF floats # {} THEN ReturnFloat(FloatSum(floats))
        ELSE Return(SumInts({<<k, IntOf(f[k])>> : k \in ints}))

\* The except clause of calculate_question_count: the decode error becomes 0.
OnDecodeError == Return(0)

\* calculate_question_count(section).  meta_description is Null or Some(text);
\* None and the empty string are falsy.  Only JSONDecodeError is caught; a
\* value without .values() raises AttributeError.
CalculateQuestionCountOf(sec) ==
    IF ~sec.meta_description.null /\ sec.meta_description.v # <<>>
    THEN LET meta_data == JsonLoads(sec.meta_description.v) IN
         IF ~meta_data.ok
         THEN (IF meta_data.exc = "JSONDecodeError" THEN OnDecodeError
               ELSE Raise(meta_data.exc))
         ELSE IF meta_data.val.t # "dict" THEN Raise("AttributeError")
         ELSE SumValues(meta_data.val.items)
    ELSE Return(Len(sec.questions))

\* Bounds of the inputs: attached questions, length of the short texts, and
\* edits made to the documents.
MaxAttached == 2
MaxLen == 2
MaxEdits == 1

SeqsUpTo(S, n) == UNION {[1..k -> S] : k \in 0..n}

\* Documents the decoder accepts: objects of integers (one with a repeated
\* key), an object of a string, a nested object, an object of the two
\* infinities, a number and a string.
JsonDocs ==
    { <<"{", "}">>,
      <<"{", "\"a\"", ":", "1", "}">>,
      <<"{", "\"a\"", ":", "1", ",", "\"b\"", ":", "2", "}">>,
      <<"{", "\"a\"", ":", "2", ",", "\"a\"", ":", "1", "}">>,
      <<"{", "\"a\"", ":", "\"b\"", "}">>,
      <<"{", "\"a\"", ":", "{", "\"b\"", ":", "1", "}", "}">>,
      <<"{", "\"a\"", ":", "Infinity", ",", "\"b\"", ":", "-Infinity", "}">>,
      <<"2">>,
      <<"\"a\"">> }

\* The tokens an edit puts into a document: punctuation and one value of
\* each kind.
EditTokens == {"}", ",", "2", "true", "null", "NaN", BigToken, UnknownWord}

\* The texts one edit away from s: a token deleted, replaced or inserted.
Edits(s) ==
    {SubSeq(s, 1, i - 1) \o SubSeq(s, i + 1, Len(s)) : i \in 1..Len(s)}
    \cup {[s EXCEPT ![i] = tok] : i \in 1..Len(s), tok \in EditTokens}
    \cup {SubSeq(s, 1, i) \o <<tok>> \o SubSeq(s, i + 1, Len(s)) :
            i \in 0..Len(s), tok \in EditTokens}

RECURSIVE EditedUpTo(_, _)
EditedUpTo(S, n) ==
    IF n = 0 THEN S ELSE EditedUpTo(S \cup UNION {Edits(s) : s \in S}, n - 1)

MetaDescriptions ==
    Option(SeqsUpTo(Tokens, MaxLen) \cup EditedUpTo(JsonDocs, MaxEdits))

CountSections ==
    [ meta_description : MetaDescriptions,
      questions : {[k \in 1..n |-> k] : n \in 0..MaxAttached} ]

CalculateQuestionCount ==
    /\ questionCount' = Some(CalculateQuestionCountOf(countSection))
    /\ UNCHANGED countSection
    /\ UNCHANGED <<availVars, scoreVars, sectionVars, dbVars, questionVars,
                   renderVars, raceVars>>

(***************************************************************************)
(* calculate_max_score (lines 118-130)                                     *)
(***************************************************************************)

\* A requirements tree: scalars (int, bool, str, float), lists, and dicts as
\* sequences of <<key, value>> in insertion order, keys distinct.
PInt(n) == [t |-> "int", n |-> n]
PBool(b) == [t |-> "bool", b |-> b]
PStr(x) == [t |-> "str", x |-> x]
PList(items) == [t |-> "list", items |-> items]
PDict(items) == [t |-> "dict", items |-> items]

\* A float is a double: inf, nan, or the finite value big * 2^53 + halves / 2
\* (halves counts halves, so 2.5 is PFloat(0, 5) and 2.0^53 is PFloat(1, 0)).
PFloat(big, halves) == [t |-> "float", k |-> "finite", big |-> big, halves |-> halves]
PInf == [t |-> "float", k |-> "inf", big |-> 0, halves |-> 0]
PNan == [t |-> "float", k |-> "nan", big |-> 0, halves |-> 0]

\* isinstance(points, (int, float)): bool is a subclass of int.
IsNumber(x) == x.t \in {"int", "bool", "float"}

\* The int an int or a bool stands for in arithmetic: True is 1, False is 0.
NumberOf(x) == IF x.t = "int" THEN x.n ELSE IF x.b THEN 1 ELSE 0

\* points > 0, for a number; nan > 0 is False.
IsPositive(x) ==
    IF x.t = "float"
    THEN x.k = "inf" \/ (x.k = "finite" /\ (x.big > 0 \/ (x.big = 0 /\ x.halves > 0)))
    ELSE NumberOf(x) > 0

\* float(x) of an int or a bool; small ints convert exactly.
ToFloat(x) == IF x.t = "float" THEN x ELSE PFloat(0, 2 * NumberOf(x))

\* The distance, in halves, between neighbouring doubles from big * 2^53 up:
\* 2 from 2^53, 4 from 2^54, and so on.
RECURSIVE Spacing(_)
Spacing(big) == IF big < 2 THEN 4 ELSE 2 * Spacing(big \div 2)

\* The double nearest to big * 2^53 + halves / 2, halves >= 0, a tie going to
\* the even mantissa.  Below 2^53 every count of halves is a double.
RoundToDouble(big, halves) ==
    IF big = 0 THEN PFloat(0, halves)
    ELSE LET u == Spacing(big)
             q == halves \div u
             rest == halves % u
             up == 2 * rest > u \/ (2 * rest = u /\ q % 2 = 1)
         IN  PFloat(big, (IF up THEN q + 1 ELSE q) * u)

\* x + y of Python, for the numbers recursive_sum adds (none below zero):
\* exact on ints, one rounding on doubles.
Add(x, y) ==
    IF x.t # "float" /\ y.t # "float" THEN PInt(NumberOf(x) + NumberOf(y))
    ELSE LET fx == ToFloat(x)
             fy == ToFloat(y)
         IN  IF fx.k = "nan" \/ fy.k = "nan" THEN PNan
             ELSE IF fx.k = "inf" \/ fy.k = "inf" THEN PInf
             ELSE RoundToDouble(fx.big + fy.big, fx.halves + fy.halves)

\* data.get("points", 0)
GetPoints(items) ==
    IF \E i \in 1..Len(items) : items[i][1] = "points"
    THEN items[CHOOSE i \in 1..Len(items) : items[i][1] = "points"][2]
    ELSE PInt(0)

\* points if isinstance(points, (int, float)) and points > 0 else 0
ValidPoints(points) ==
    IF IsNumber(points) /\ IsPositive(points) THEN points ELSE PInt(0)

\* recursive_sum(data); SumFrom is sum(...) from position i on with acc the
\* sum so far (sum starts from the int 0 and adds from the left), over
\* recursive_sum of the elements of a list (pick 0) or of the values of a
\* dict's items (pick 2).  Before CPython 3.12 sum adds doubles one by one
\* with no compensation.
RECURSIVE RecursiveSum(_), SumFrom(_, _, _, _)
RecursiveSum(data) ==
    IF data.t = "dict"
    THEN Add(ValidPoints(GetPoints(data.items)), SumFrom(data.items, 1, 2, PInt(0)))
    ELSE IF data.t = "list" THEN SumFrom(data.items, 1, 0, PInt(0))
    ELSE PInt(0)

SumFrom(items, i, pick, acc) ==
    IF i > Len(items) THEN acc
    ELSE SumFrom(items, i + 1, pick,
                 Add(acc, RecursiveSum(IF pick = 0 THEN items[i]
                                       ELSE items[i][pick])))

CalculateMaxScoreOf(reqs) == RecursiveSum(reqs)

\* Bounds of the inputs: entries of a list or dict of scalars, and nesting
\* depth.
MaxWidth == 2
MaxDepth == 3

Keys == {"points", "a", "b"}
Scalars ==
    { PInt(-1), PInt(0), PInt(3), PInt(5), PStr("x"), PBool(TRUE),
      PFloat(0, 5), PFloat(1, 0), PInf, PNan }

\* Sequences without repetition of up to n elements of S.
DistinctSeqs(S, n) ==
    {q \in SeqsUpTo(S, n) : \A i, j \in 1..Len(q) : i # j => q[i] # q[j]}

\* Lists and dicts of scalars.
FlatTrees ==
    {PList(q) : q \in SeqsUpTo(Scalars, MaxWidth)}
    \cup UNION {{PDict([i \in 1..Len(ks) |-> <<ks[i], vs[i]>>]) :
                   vs \in [1..Len(ks) -> Scalars]} :
                ks \in DistinctSeqs(Keys, MaxWidth)}

\* The example of the documentation:
\* [{"points": 5}, {"a": {"points": 3}, "b": [{"points": -1}, {"points": "x"}]}]
ExampleTree ==
    PList(<<PDict(<<<<"points", PInt(5)>>>>),
            PDict(<<<<"a", PDict(<<<<"points", PInt(3)>>>>)>>,
                    <<"b", PList(<<PDict(<<<<"points", PInt(-1)>>>>),
                                   PDict(<<<<"points", PStr("x")>>>>)>>)>>>>)>>)

RECURSIVE Depth(_), DepthFrom(_, _, _)
Depth(data) ==
    IF data.t = "dict" THEN 1 + DepthFrom(data.items, 1, 2)
    ELSE IF data.t = "list" THEN 1 + DepthFrom(data.items, 1, 0)
    ELSE 0

DepthFrom(items, i, pick) ==
    IF i > Len(items) THEN 0
    ELSE LET d == Depth(IF pick = 0 THEN items[i] ELSE items[i][pick])
             r == DepthFrom(items, i + 1, pick)
         IN  IF d > r THEN d ELSE r

\* The ways a tree sits inside a bigger one: in a list between two siblings,
\* or as a value of a dict, under "points" or beside it.
Nestings(tree) ==
    { PList(<<PDict(<<<<"points", PInt(1)>>>>), tree,
              PDict(<<<<"points", PInt(1)>>>>)>>),
      PDict(<<<<"points", tree>>>>),
      PDict(<<<<"b", tree>>, <<"points", PInt(3)>>>>) }

\* The caller passes a bigger requirements tree.
Nest ==
    /\ Depth(requirements) < MaxDepth
    /\ requirements' \in Nestings(requirements)
    /\ maxScore' = Null
    /\ UNCHANGED <<availVars, countVars, sectionVars, dbVars, questionVars,
                   renderVars, raceVars>>

CalculateMaxScore ==
    /\ maxScore' = Some(CalculateMaxScoreOf(requirements))
    /\ UNCHANGED requirements
    /\ UNCHANGED <<availVars, countVars, sectionVars, dbVars, questionVars,
                   renderVars, raceVars>>

(***************************************************************************)
(* SectionDto.__init__ (lines 282-339)                                     *)
(***************************************************************************)

Users == {"u1", "u2"}
SectionIds == {"s1", "s2"}

\* flask_login's current_user.id
CurrentUser == "u1"

\* Bound of the input: rows of table QuizSession.
MaxSessions == 2

\* Finish times, and the is_correct columns of a session's questions (Null:
\* not answered yet).
FinishTimes == {1, 2}
IsCorrectColumns ==
    { <<Some(TRUE), Some(TRUE)>>,
      <<Some(FALSE), Null, Some(TRUE)>> }

\* Whose attempt at which section a row is: the current user's at either
\* section, or another user's.
Scopes == {<<"u1", "s1">>, <<"u1", "s2">>, <<"u2", "s1">>}

\* A QuizSession row; its id and created_on are its position in the table,
\* its guid, when it has one, is named after the id.
SessionRows ==
    { [ created_by |-> sc[1], section_id |-> sc[2], has_guid |-> g,
        finished_at |-> f, sessions |-> c ] :
      sc \in Scopes, g \in BOOLEAN, f \in Option(FinishTimes),
      c \in IsCorrectColumns }

GuidOfSession(id) == IF quizSessions[id].has_guid THEN <<"guid", id>> ELSE <<>>

\* QuizSession.query.filter(created_by_id == current_user.id)
\*                  .filter(section_id == section_id): the ids of the rows.
CurrentUserSessions(section_id) ==
    {id \in 1..Len(quizSessions) :
        /\ quizSessions[id].created_by = CurrentUser
        /\ quizSessions[id].section_id = section_id}

\* .order_by(QuizSession.finished_at.desc()).first(): the rows that may come
\* first.  Where NULL sorts is the database's choice (first in PostgreSQL,
\* last in SQLite and MySQL, for a descending order); rows with equal keys
\* come in any order.
FirstByFinishedDesc(ids, nulls_first) ==
    LET unfinished == {id \in ids : quizSessions[id].finished_at.null}
        finished == ids \ unfinished
        latest == {id \in finished : \A o \in finished :
                      quizSessions[o].finished_at.v <= quizSessions[id].finished_at.v}
    IN  IF ids = {} THEN {}
        ELSE IF unfinished # {} /\ (nulls_first \/ finished = {}) THEN unfinished
        ELSE latest

\* sum(1 for question in session.sessions if question.is_correct)
CorrectCount(id) ==
    Cardinality({k \in 1..Len(quizSessions[id].sessions) :
                    quizSessions[id].sessions[k] = Some(TRUE)})

\* .filter(QuizSession.finished_at.is_(None))
\*  .order_by(QuizSession.created_on.desc()).first(): Null or Some(id).
UnfinishedSession(ids) ==
    LET unfinished == {id \in ids : quizSessions[id].finished_at.null} IN
    IF unfinished = {} THEN Null
    ELSE Some(CHOOSE id \in unfinished : \A o \in unfinished : o <= id)

ThereIsUnfinishedAnyTest(unfinished_session, is_exam, is_retakeable) ==
    ~unfinished_session.null /\ is_exam

\* if unfinished_session and is_exam and not test.is_retakeable
ThereIsUnfinished(unfinished_session, is_exam, is_retakeable) ==
    ~unfinished_session.null /\ is_exam /\ ~is_retakeable

\* SessionQuestion...filter(is_correct.is_(None)).order_by(id.asc()).first():
\* Null, or Some(<<session id, position>>).
FirstUnanswered(id) ==
    LET open == {k \in 1..Len(quizSessions[id].sessions) :
                    quizSessions[id].sessions[k].null}
    IN  IF open = {} THEN Null
        ELSE Some(<<id, CHOOSE k \in open : \A o \in open : k <= o>>)

\* SectionDto(section_id=..., is_exam=..., ...): the attributes the
\* constructor computes; an attribute it does not set is Null (or <<>> for
\* session_guid).
SectionDtoInit(section_id, is_exam) ==
    \E nulls_first \in BOOLEAN :
      LET mine == CurrentUserSessions(section_id)
          first == FirstByFinishedDesc(mine, nulls_first)
          unfinished_session == UnfinishedSession(mine)
          blocking == ThereIsUnfinished(unfinished_session, is_exam, testRetakeable)
      IN  \E session \in (IF first = {} THEN {0} ELSE first) :
            /\ sectionDto' = Some(
                 [ section_id |-> section_id,
                   is_exam |-> is_exam,
                   sessions_count |-> Cardinality(mine),
                   last_correct_count |->
                       IF session = 0 THEN Null ELSE Some(CorrectCount(session)),
                   session_guid |->
                       IF session = 0 THEN <<>> ELSE GuidOfSession(session),
                   there_is_unfinished |-> blocking,
                   last_question |->
                       IF blocking THEN FirstUnanswered(unfinished_session.v)
                       ELSE Null ])
            /\ UNCHANGED <<quizSessions, testRetakeable>>
            /\ UNCHANGED <<availVars, countVars, scoreVars, dbVars, questionVars,
                           renderVars, raceVars>>

BuildSectionDto == \E section_id \in SectionIds, is_exam \in BOOLEAN :
                      SectionDtoInit(section_id, is_exam)

(***************************************************************************)
(* PracticeQuestionDto (lines 159-217)                                     *)
(***************************************************************************)

\* Guids are numbers here: practice_question.start_configuration names the
\* template network; uuid4 draws from 1..MaxGuids.
TemplateGuid == 0
MaxGuids == 3

\* Bounds: rows of table SessionQuestion, finished renders recorded per row.
MaxSessionQuestions == 2
MaxRenders == 3

\* Network.network is a string, here of three kinds of character: "q" a
\* double quote, "b" a backslash, "x" any other.
TemplateNetwork == <<"x", "q", "x", "b", "q", "b", "x">>

TemplateRow ==
    [ guid |-> TemplateGuid, author_id |-> "u2", network |-> TemplateNetwork,
      title |-> "task", description |-> "template", preview_uri |-> "uri",
      is_task |-> TRUE ]

\* The practice question of the rendered question.
CopiedAttributes ==
    {"description", "available_host", "available_l1_hub", "available_server",
     "available_l2_switch", "available_l3_router"}
PracticeQuestion ==
    [ description |-> "configure", available_host |-> "1",
      available_l1_hub |-> "0", available_server |-> "1",
      available_l2_switch |-> "0", available_l3_router |-> "1",
      start_configuration |-> TemplateGuid ]

\* str.replace('\\"', '"'): every backslash followed by a quote becomes the
\* quote, scanning from the left.
RECURSIVE UnescapeQuotes(_)
UnescapeQuotes(str) ==
    IF str = <<>> THEN <<>>
    ELSE IF Len(str) >= 2 /\ str[1] = "b" /\ str[2] = "q"
         THEN <<"q">> \o UnescapeQuotes(SubSeq(str, 3, Len(str)))
    ELSE <<str[1]>> \o UnescapeQuotes(Tail(str))

\* str.replace('"', '\\"'): every quote gets a backslash before it.
RECURSIVE EscapeQuotes(_)
EscapeQuotes(str) ==
    IF str = <<>> THEN <<>>
    ELSE (IF str[1] = "q" THEN <<"b", "q">> ELSE <<str[1]>>)
         \o EscapeQuotes(Tail(str))

\* Network.query.filter(guid == g).first(): Null when no row has the guid.
NetworkByGuid(rows, g) ==
    IF \E r \in rows : r.guid = g
    THEN Some(CHOOSE r \in rows : r.guid = g)
    ELSE Null

\* SessionQuestion.query.filter_by(id=session_question_id).first()
SessionQuestionById(id) ==
    IF id \in DOMAIN sessionQuestions THEN Some(sessionQuestions[id]) ELSE Null

IsBoundNever(session_question) == FALSE

\* if session_question.network_guid
IsBound(session_question) == ~session_question.network_guid.null

\* Network(guid=str(u), author_id=user_id, network=net.network, ...)
NetworkCopy(u, user_id, net) ==
    [ guid |-> u, author_id |-> user_id, network |-> net.network,
      title |-> net.title, description |-> "Network copy",
      preview_uri |-> net.preview_uri, is_task |-> TRUE ]

\* Lines 201-203 and the attributes copied at lines 170-171: the object.
PracticeObject(practice_question, net_copy) ==
    [ kind |-> "object",
      attrs |-> [a \in CopiedAttributes |-> practice_question[a]],
      start_configuration |-> EscapeQuotes(UnescapeQuotes(net_copy.network)),
      network_guid |-> net_copy.guid ]

\* uuid.uuid4(): a guid no Network row has.
FreshGuids(rows) == (1..MaxGuids) \ {r.guid : r \in rows}

\* Whether the constructor reaches line 187 with a template to copy.
CopiesTemplate(practice_question, session_question_id) ==
    LET session_question == SessionQuestionById(session_question_id) IN
    /\ ~session_question.null
    /\ ~IsBound(session_question.v)
    /\ ~NetworkByGuid(networks, practice_question.start_configuration).null

\* PracticeQuestionDto(user_id, practice_question, session_question_id) run
\* without interruption, u being what uuid4 returns: the object built or the
\* exception raised, and the tables after it.  Reading an attribute of None
\* (no session question, no template, no row of the bound guid) raises
\* AttributeError.
PracticeQuestionDtoInit(user_id, practice_question, session_question_id, u) ==
    LET session_question == SessionQuestionById(session_question_id)
        unchanged(result) ==
            [result |-> result, networks |-> networks, sqs |-> sessionQuestions]
    IN  IF session_question.null THEN unchanged(Raise("AttributeError"))
        ELSE IF IsBound(session_question.v)
        THEN LET net_copy == NetworkByGuid(networks,
                                           session_question.v.network_guid.v)
             IN  IF net_copy.null THEN unchanged(Raise("AttributeError"))
                 ELSE unchanged(PracticeObject(practice_question, net_copy.v))
        ELSE LET net == NetworkByGuid(networks,
                                      practice_question.start_configuration)
             IN  IF net.null THEN unchanged(Raise("AttributeError"))
                 ELSE LET net_copy == NetworkCopy(u, user_id, net.v) IN
                      [ result |-> PracticeObject(practice_question, net_copy),
                        networks |-> networks \cup {net_copy},
                        sqs |-> [sessionQuestions EXCEPT
                                   ![session_question_id].network_guid = Some(u)] ]

\* to_dict() (lines 205-217)
PracticeToDict(dto) ==
    [ attrs |-> dto.attrs, start_configuration |-> dto.start_configuration,
      network_guid |-> dto.network_guid ]

\* The ids a caller may pass: those of the rows, and 0, which no row has.
SessionQuestionIds == 0..MaxSessionQuestions

UuidChoices(practice_question, session_question_id) ==
    IF CopiesTemplate(practice_question, session_question_id)
    THEN FreshGuids(networks) ELSE {TemplateGuid}

\* One request constructs a PracticeQuestionDto, start to end.
RenderPractice ==
    \E user_id \in Users, session_question_id \in SessionQuestionIds :
      /\ session_question_id \in DOMAIN renders
            => Len(renders[session_question_id]) < MaxRenders
      /\ \E u \in UuidChoices(PracticeQuestion, session_question_id) :
           LET done == PracticeQuestionDtoInit(user_id, PracticeQuestion,
                                               session_question_id, u)
           IN  /\ networks' = done.networks
               /\ sessionQuestions' = done.sqs
               /\ practiceDto' = Some([ session_question_id |-> session_question_id,
                                        result |-> done.result ])
               /\ renders' = IF done.result.kind = "object"
                             THEN [renders EXCEPT ![session_question_id] =
                                      Append(@, done.result.network_guid)]
                             ELSE renders
      /\ UNCHANGED <<availVars, countVars, scoreVars, sectionVars, questionVars,
                     raceVars>>

(***************************************************************************)
(* QuestionDto (lines 220-250) and AnswerDto (lines 145-156)               *)
(***************************************************************************)

\* Bound of the input: rows of table Answer.
MaxAnswers == 2

\* question_type codes a Question row may hold: the four known ones and one
\* the program does not know.
QuestionTypeCodes == {0, 1, 2, 3, 7}
QuestionIds == {"q1", "q2"}

\* What an Answer row says: its texts and whether it is correct.
AnswerContents ==
    { [variant |-> "v1", left |-> "l1", right |-> "r1", is_correct |-> TRUE],
      [variant |-> "v2", left |-> "l2", right |-> "r2", is_correct |-> FALSE] }

AnswerRows ==
    { [ question_id |-> q, is_deleted |-> d, is_correct |-> c.is_correct,
        variant |-> c.variant, left |-> c.left, right |-> c.right ] :
      q \in QuestionIds, d \in BOOLEAN, c \in AnswerContents }

\* The Question rows a caller may pass.
Questions ==
    { [ id |-> q, question_type |-> code, images |-> <<"img.png">>,
        practice_question |-> PracticeQuestion ] :
      q \in QuestionIds, code \in QuestionTypeCodes }

\* get_question_type(question_type)
GetQuestionType(question_type) ==
    CASE question_type = 0 -> "practice"
      [] question_type = 1 -> "variable"
      [] question_type = 2 -> "sorting"
      [] question_type = 3 -> "matching"
      [] OTHER -> ""

\* AnswerDto(question_type, answer).to_dict()
AnswerDtoToDict(question_type, answer) ==
    IF question_type = "matching"
    THEN [left |-> answer.left, right |-> answer.right]
    ELSE [variant |-> answer.variant]

KeepsAnswerOfQuestion(answer, question_id) == answer.question_id = question_id

\* filter_by(question_id=question.id, is_deleted=False), on one row
KeepsAnswer(answer, question_id) ==
    answer.question_id = question_id /\ answer.is_deleted = FALSE

\* Answer.query.filter_by(...).all()
FilteredAnswers(question_id) ==
    SelectSeq(answers, LAMBDA answer : KeepsAnswer(answer, question_id))

\* sum(answer.is_correct for answer in filtered_answers)
CountCorrect(filtered_answers) ==
    Cardinality({k \in 1..Len(filtered_answers) : filtered_answers[k].is_correct})

\* random.shuffle(list): the orders the list may end in.
Shuffles(list) ==
    {[k \in 1..Len(list) |-> list[f[k]]] : f \in Permutations(1..Len(list))}

\* The attributes a QuestionDto has after line 231; practice_question and
\* answers are set later or not at all (Null).
QuestionObject(question, label, correct_count, practice_question, answer_list) ==
    [ kind |-> "object", question_id |-> question.id, question_type |-> label,
      correct_count |-> correct_count, images |-> question.images,
      practice_question |-> practice_question, answers |-> answer_list ]

\* QuestionDto(user_id, question, session_question_id)
QuestionDtoInit(user_id, question, session_question_id) ==
    LET label == GetQuestionType(question.question_type) IN
    IF label = "practice"
    THEN \E u \in UuidChoices(question.practice_question, session_question_id) :
           LET done == PracticeQuestionDtoInit(user_id, question.practice_question,
                                               session_question_id, u)
           IN  /\ networks' = done.networks
               /\ sessionQuestions' = done.sqs
               /\ practiceDto' = Some([ session_question_id |-> session_question_id,
                                        result |-> done.result ])
               /\ questionDto' = Some(
                    IF done.result.kind = "raise" THEN done.result
                    ELSE QuestionObject(question, label, 0,
                                        Some(PracticeToDict(done.result)), Null))
               /\ UNCHANGED <<answers, renders>>
    ELSE LET filtered_answers == FilteredAnswers(question.id)
             correct_count == IF label = "variable"
                              THEN CountCorrect(filtered_answers) ELSE 0
             dicts == [k \in 1..Len(filtered_answers) |->
                          AnswerDtoToDict(label, filtered_answers[k])]
         IN  \E shuffled \in Shuffles(dicts) :
               /\ questionDto' = Some(QuestionObject(question, label, correct_count,
                                                     Null, Some(shuffled)))
               /\ UNCHANGED <<answers, networks, sessionQuestions, practiceDto,
                              renders>>

\* The user and the session question matter to a practice question only; for
\* the other types one value of each stands for all.
BuildQuestionDto ==
    /\ \E question \in Questions :
          LET practice == GetQuestionType(question.question_type) = "practice" IN
          \E user_id \in (IF practice THEN Users ELSE {CurrentUser}),
             session_question_id \in (IF practice THEN SessionQuestionIds ELSE {0}) :
             QuestionDtoInit(user_id, question, session_question_id)
    /\ UNCHANGED <<availVars, countVars, scoreVars, sectionVars, raceVars>>

(***************************************************************************)
(* PracticeQuestionDto.__init__ statement by statement (lines 173-203),    *)
(* for requests served at the same time, each with its own db.session      *)
(***************************************************************************)

Requests == {"r1", "r2"}

otherThanRequests ==
    <<availVars, countVars, scoreVars, sectionVars, questionVars, renderVars>>

IdleRequest ==
    [ pc |-> "idle", user_id |-> CurrentUser, session_question_id |-> 0,
      session_question |-> Null, net |-> Null, net_copy |-> Null,
      result |-> Null ]

\* The guids of the copies requests have built and not committed yet.
PendingGuids ==
    {procs[r].net_copy.v.guid :
        r \in {r \in Requests : procs[r].pc \in {"bind", "commit"}}}

\* A request arrives.
StartRequest(r) ==
    /\ procs[r].pc = "idle"
    /\ \E user_id \in Users, session_question_id \in SessionQuestionIds :
          procs' = [procs EXCEPT ![r].pc = "query",
                                 ![r].user_id = user_id,
                                 ![r].session_question_id = session_question_id]
    /\ UNCHANGED <<networks, sessionQuestions>>
    /\ UNCHANGED otherThanRequests

\* Lines 173-177: the session question is loaded and its network_guid read;
\* reading it of None raises AttributeError.
QuerySessionQuestion(r) ==
    /\ procs[r].pc = "query"
    /\ LET session_question == SessionQuestionById(procs[r].session_question_id) IN
       procs' = [procs EXCEPT
                   ![r].session_question = session_question,
                   ![r].pc = IF session_question.null THEN "raised"
                             ELSE IF IsBound(session_question.v) THEN "load_copy"
                             ELSE "load_template",
                   ![r].result = IF session_question.null
                                 THEN Some(Raise("AttributeError")) ELSE Null]
    /\ UNCHANGED <<networks, sessionQuestions>>
    /\ UNCHANGED otherThanRequests

\* Lines 178-180: the bound network is loaded.
LoadCopy(r) ==
    /\ procs[r].pc = "load_copy"
    /\ procs' = [procs EXCEPT
                   ![r].net_copy = NetworkByGuid(networks,
                                      procs[r].session_question.v.network_guid.v),
                   ![r].pc = "present"]
    /\ UNCHANGED <<networks, sessionQuestions>>
    /\ UNCHANGED otherThanRequests

\* Lines 182-184: the template network is loaded.
LoadTemplate(r) ==
    /\ procs[r].pc = "load_template"
    /\ procs' = [procs EXCEPT
                   ![r].net = NetworkByGuid(networks,
                                            PracticeQuestion.start_configuration),
                   ![r].pc = "create"]
    /\ UNCHANGED <<networks, sessionQuestions>>
    /\ UNCHANGED otherThanRequests

\* Lines 186-196: uuid4, the copy is built and added to the session; reading
\* net.network of None raises AttributeError.
CreateCopy(r) ==
    /\ procs[r].pc = "create"
    /\ \E u \in (IF procs[r].net.null THEN {TemplateGuid}
                 ELSE FreshGuids(networks) \ PendingGuids) :
          procs' = [procs EXCEPT
                      ![r].net_copy =
                          IF procs[r].net.null THEN Null
                          ELSE Some(NetworkCopy(u, procs[r].user_id, procs[r].net.v)),
                      ![r].pc = IF procs[r].net.null THEN "raised" ELSE "bind",
                      ![r].result = IF procs[r].net.null
                                    THEN Some(Raise("AttributeError")) ELSE Null]
    /\ UNCHANGED <<networks, sessionQuestions>>
    /\ UNCHANGED otherThanRequests

\* Line 198: the guid is set on the loaded session question.
BindGuid(r) ==
    /\ procs[r].pc = "bind"
    /\ procs' = [procs EXCEPT
                   ![r].session_question =
                       Some([network_guid |-> Some(procs[r].net_copy.v.guid)]),
                   ![r].pc = "commit"]
    /\ UNCHANGED <<networks, sessionQuestions>>
    /\ UNCHANGED otherThanRequests

\* Line 199: db.session.commit() inserts the copy and updates the row of the
\* session question, whatever the row holds by now.
Commit(r) ==
    /\ procs[r].pc = "commit"
    /\ networks' = networks \cup {procs[r].net_copy.v}
    /\ sessionQuestions' =
          [sessionQuestions EXCEPT ![procs[r].session_question_id] =
              procs[r].session_question.v]
    /\ procs' = [procs EXCEPT ![r].pc = "present"]
    /\ UNCHANGED otherThanRequests

\* Lines 201-203: start_configuration and network_guid are set; reading
\* net_copy.network of None raises AttributeError.
Present(r) ==
    /\ procs[r].pc = "present"
    /\ procs' = [procs EXCEPT
                   ![r].pc = IF procs[r].net_copy.null THEN "raised" ELSE "done",
                   ![r].result =
                       IF procs[r].net_copy.null THEN Some(Raise("AttributeError"))
                       ELSE Some(PracticeObject(PracticeQuestion,
                                                procs[r].net_copy.v))]
    /\ UNCHANGED <<networks, sessionQuestions>>
    /\ UNCHANGED otherThanRequests

(***************************************************************************)
(* Specifications                                                          *)
(***************************************************************************)

\* A unit not under study holds these values and none of its actions runs.
AvailIdle == section = Null /\ now = 0 /\ available = Null
CountIdle ==
    /\ countSection = [meta_description |-> Null, questions |-> <<>>]
    /\ questionCount = Null
ScoreIdle == requirements = PList(<<>>) /\ maxScore = Null
SectionIdle == quizSessions = <<>> /\ testRetakeable = FALSE /\ sectionDto = Null
DbIdle == networks = {} /\ sessionQuestions = <<>>
QuestionIdle == answers = <<>> /\ questionDto = Null
RenderIdle == practiceDto = Null /\ renders = <<>>
RaceIdle == procs = <<>>

InitAvail ==
    /\ section \in AvailSections
    /\ now = 0
    /\ available = Null
    /\ CountIdle /\ ScoreIdle /\ SectionIdle /\ DbIdle /\ QuestionIdle
    /\ RenderIdle /\ RaceIdle

NextAvail == IsAnswerAvailable \/ ClockTick

SpecAvail == InitAvail /\ [][NextAvail]_vars

InitCount ==
    /\ countSection \in CountSections
    /\ questionCount = Null
    /\ AvailIdle /\ ScoreIdle /\ SectionIdle /\ DbIdle /\ QuestionIdle
    /\ RenderIdle /\ RaceIdle

NextCount == CalculateQuestionCount

SpecCount == InitCount /\ [][NextCount]_vars

InitScore ==
    /\ requirements \in FlatTrees \cup Scalars \cup {ExampleTree}
    /\ maxScore = Null
    /\ AvailIdle /\ CountIdle /\ SectionIdle /\ DbIdle /\ QuestionIdle
    /\ RenderIdle /\ RaceIdle

NextScore == CalculateMaxScore \/ Nest

SpecScore == InitScore /\ [][NextScore]_vars

InitSection ==
    /\ quizSessions \in SeqsUpTo(SessionRows, MaxSessions)
    /\ testRetakeable \in BOOLEAN
    /\ sectionDto = Null
    /\ AvailIdle /\ CountIdle /\ ScoreIdle /\ DbIdle /\ QuestionIdle
    /\ RenderIdle /\ RaceIdle

NextSection == BuildSectionDto

SpecSection == InitSection /\ [][NextSection]_vars

\* The template network exists or not; no session question is bound yet.
InitRender ==
    /\ networks \in {{}, {TemplateRow}}
    /\ sessionQuestions = [id \in 1..MaxSessionQuestions |-> [network_guid |-> Null]]
    /\ practiceDto = Null
    /\ renders = [id \in 1..MaxSessionQuestions |-> <<>>]
    /\ AvailIdle /\ CountIdle /\ ScoreIdle /\ SectionIdle /\ QuestionIdle
    /\ RaceIdle

NextRender == RenderPractice

SpecRender == InitRender /\ [][NextRender]_vars

\* Any Answer table; every session question already has its network copy.
InitQuestion ==
    /\ answers \in SeqsUpTo(AnswerRows, MaxAnswers)
    /\ questionDto = Null
    /\ networks = {TemplateRow}
          \cup {NetworkCopy(id, "u1", TemplateRow) : id \in 1..MaxSessionQuestions}
    /\ sessionQuestions =
          [id \in 1..MaxSessionQuestions |-> [network_guid |-> Some(id)]]
    /\ AvailIdle /\ CountIdle /\ ScoreIdle /\ SectionIdle /\ RenderIdle
    /\ RaceIdle

NextQuestion == BuildQuestionDto

SpecQuestion == InitQuestion /\ [][NextQuestion]_vars

\* Two requests, no session question bound yet.
InitRace ==
    /\ networks \in {{}, {TemplateRow}}
    /\ sessionQuestions = [id \in 1..MaxSessionQuestions |-> [network_guid |-> Null]]
    /\ procs = [r \in Requests |-> IdleRequest]
    /\ AvailIdle /\ CountIdle /\ ScoreIdle /\ SectionIdle /\ QuestionIdle
    /\ RenderIdle

NextRace ==
    \E r \in Requests :
        \/ StartRequest(r)
        \/ QuerySessionQuestion(r)
        \/ LoadCopy(r)
        \/ LoadTemplate(r)
        \/ CreateCopy(r)
        \/ BindGuid(r)
        \/ Commit(r)
        \/ Present(r)

SpecRace == InitRace /\ [][NextRace]_vars

\* Every unit at once.
Init ==
    \/ InitAvail \/ InitCount \/ InitScore \/ InitSection \/ InitQuestion
    \/ InitRender \/ InitRace

Next ==
    \/ NextAvail \/ NextCount \/ NextScore \/ NextSection \/ NextQuestion
    \/ NextRender \/ NextRace

Spec == Init /\ [][Next]_vars

(***************************************************************************)
(* Claims about is_answer_available                                        *)
(***************************************************************************)

\* The instant (UTC hours) a threshold denotes: a naive one is read as Moscow
\* time, an aware one in its own zone.
InstantOf(t) ==
    IF t.tz.null THEN t.wall - MoscowOffset ELSE t.wall - t.tz.v

\* C8: is_answer_available returns true exactly when the section is missing,
\* its threshold is unset, or the instant of the call is not before the
\* instant of the threshold (a naive threshold read as Moscow time, an aware
\* one converted without changing its instant).
C8_AvailableIffDue ==
    ~available.null =>
        available.v.value =
            ( \/ section.null
              \/ section.v.results_available_from.null
              \/ available.v.at >= InstantOf(section.v.results_available_from.v) )

\* An aware threshold of another zone whose fields are not later than the
\* fields of the Moscow clock, although its instant is still ahead: not
\* available.
C8_Witness ==
    /\ ~available.null /\ ~section.null
    /\ ~section.v.results_available_from.null
    /\ LET t == section.v.results_available_from.v IN
       /\ ~t.tz.null /\ t.tz.v # MoscowOffset
       /\ t.wall <= available.v.at + MoscowOffset
       /\ available.v.value = FALSE

(***************************************************************************)
(* Claims about calculate_question_count                                   *)
(***************************************************************************)

\* Well-formed JSON (RFC 8259) over the tokens, stated on spans: s[i..j] is a
\* value when it is one number, string, true, false or null, or braces
\* around members; members are string, colon, value, separated by commas.
\* NaN, Infinity and -Infinity are not JSON.
JsonScalarTokens == NumTokens \cup {BigToken} \cup StrTokens \cup ConstantTokens

RECURSIVE IsValueSpan(_, _, _), IsMembersSpan(_, _, _)
IsValueSpan(s, i, j) ==
    \/ i = j /\ s[i] \in JsonScalarTokens
    \/ /\ i < j /\ s[i] = "{" /\ s[j] = "}"
       /\ (j = i + 1 \/ IsMembersSpan(s, i + 1, j - 1))

IsMembersSpan(s, i, j) ==
    /\ i + 2 <= j
    /\ s[i] \in StrTokens /\ s[i + 1] = ":"
    /\ \E k \in (i + 2)..j :
          /\ IsValueSpan(s, i + 2, k)
          /\ (k = j \/ (k + 1 < j /\ s[k + 1] = "," /\ IsMembersSpan(s, k + 2, j)))

WellFormedJson(s) == Len(s) >= 1 /\ IsValueSpan(s, 1, Len(s))

\* An object whose every member maps a string to an integer: n members take
\* 4n + 1 tokens, member m at positions 4m-2 .. 4m+1.
MembersOf(s) == (Len(s) - 1) \div 4
IsIntObject(s) ==
    \/ s = <<"{", "}">>
    \/ /\ Len(s) >= 5 /\ Len(s) % 4 = 1 /\ s[1] = "{"
       /\ \A m \in 1..MembersOf(s) :
             /\ s[4 * m - 2] \in StrTokens
             /\ s[4 * m - 1] = ":"
             /\ s[4 * m] \in NumTokens \cup {BigToken}
             /\ s[4 * m + 1] = (IF m = MembersOf(s) THEN "}" ELSE ",")

\* Whether every integer of the object is a small one, whose value the model
\* holds.
HasSmallInts(s) == \A m \in 1..MembersOf(s) : s[4 * m] \in NumTokens

\* The value the mapping gives a category: that of its last member.
CategoryValue(s, key) ==
    LET ms == {m \in 1..MembersOf(s) : s[4 * m - 2] = key} IN
    IF ms = {} THEN 0
    ELSE NumValue(s[4 * (CHOOSE m \in ms : \A n \in ms : n <= m)])

CategoryTotal(s) == CategoryValue(s, "\"a\"") + CategoryValue(s, "\"b\"")

\* C6: calculate_question_count returns the number of attached questions when
\* meta_description is unset (None, or the empty string, which the code's
\* truth test treats alike); the sum of the values when it is a JSON object
\* of integers; and 0, raising nothing, when it is not well-formed JSON.
\* The program breaks it: NaN, Infinity and -Infinity are not JSON and the
\* decoder accepts them, so the call returns a float or raises
\* AttributeError; and an integer of more than 4300 digits raises ValueError.
C6_QuestionCount ==
    ~questionCount.null =>
        LET m == countSection.meta_description
            r == questionCount.v
            unset == m.null \/ m.v = <<>>
        IN  /\ unset => r = Return(Len(countSection.questions))
            /\ (~unset /\ IsIntObject(m.v)) =>
                  /\ r.kind = "return"
                  /\ HasSmallInts(m.v) => r = Return(CategoryTotal(m.v))
            /\ (~unset /\ ~WellFormedJson(m.v)) => r = Return(0)

(***************************************************************************)
(* Claims about calculate_max_score                                        *)
(***************************************************************************)

IsContainer(data) == data.t \in {"dict", "list"}
ChildOf(data, i) == IF data.t = "list" THEN data.items[i] ELSE data.items[i][2]

\* Every node of a tree, with the path of positions that leads to it.
RECURSIVE NodesAt(_, _)
NodesAt(path, data) ==
    {<<path, data>>}
    \cup (IF IsContainer(data)
          THEN UNION {NodesAt(Append(path, i), ChildOf(data, i)) :
                        i \in 1..Len(data.items)}
          ELSE {})

\* Exact quantities: inf, or big * 2^53 + halves / 2 with no rounding.
Exact(big, halves) == [inf |-> FALSE, big |-> big, halves |-> halves]
ExactInf == [inf |-> TRUE, big |-> 0, halves |-> 0]
ExactAdd(x, y) ==
    IF x.inf \/ y.inf THEN ExactInf
    ELSE Exact(x.big + y.big, x.halves + y.halves)

\* The quantity a result stands for: 3 and 3.0 are the same.
ValueOf(x) ==
    IF x.t = "float"
    THEN (IF x.k = "inf" THEN ExactInf ELSE Exact(x.big, x.halves))
    ELSE Exact(0, 2 * NumberOf(x))

\* What one node adds: a dict with a numeric points above zero adds it.
\* Numeric is Python's notion: an int, a float, and True, which is the int 1;
\* nan is not above zero.
PointsOfNode(node) ==
    IF node.t = "dict" /\ \E i \in 1..Len(node.items) : node.items[i][1] = "points"
    THEN LET points == node.items[CHOOSE i \in 1..Len(node.items) :
                                     node.items[i][1] = "points"][2]
         IN  IF points.t \in {"int", "bool"} /\ NumberOf(points) > 0
             THEN Exact(0, 2 * NumberOf(points))
             ELSE IF points.t = "float" /\ points.k = "inf" THEN ExactInf
             ELSE IF points.t = "float" /\ points.k = "finite"
                     /\ (points.big > 0 \/ points.halves > 0)
             THEN Exact(points.big, points.halves)
             ELSE Exact(0, 0)
    ELSE Exact(0, 0)

RECURSIVE TotalOver(_)
TotalOver(S) ==
    IF S = {} THEN Exact(0, 0)
    ELSE LET e == CHOOSE e \in S : TRUE
         IN  ExactAdd(PointsOfNode(e[2]), TotalOver(S \ {e}))

PointsTotal(data) == TotalOver(NodesAt(<<>>, data))

\* The same tree with the entries of every list and dict in reverse order,
\* and the trees that permute the entries of the root.
Reversed(q) == [i \in 1..Len(q) |-> q[Len(q) + 1 - i]]
RECURSIVE DeepReverse(_)
DeepReverse(data) ==
    IF data.t = "list"
    THEN PList(Reversed([i \in 1..Len(data.items) |-> DeepReverse(data.items[i])]))
    ELSE IF data.t = "dict"
    THEN PDict(Reversed([i \in 1..Len(data.items) |->
                            <<data.items[i][1], DeepReverse(data.items[i][2])>>]))
    ELSE data

RootOrders(data) ==
    IF IsContainer(data)
    THEN {[t |-> data.t, items |-> [i \in 1..Len(data.items) |-> data.items[f[i]]]] :
            f \in Permutations(1..Len(data.items))}
    ELSE {data}

\* C5: calculate_max_score returns the sum of the points of every dict of the
\* tree, at any depth, a points that is not a number or not above zero adding
\* 0; the same for every order of the entries; 0 for a value that is neither
\* dict nor list and for an empty one; and 8 for the documented example.
\* The program breaks it on floats: doubles are added one by one, each sum
\* rounded, so [2.0^53, 1, 1] gives 2^53 and [1, 1, 2.0^53] gives 2^53 + 2.
C5_MaxScore ==
    ~maxScore.null =>
        /\ ValueOf(maxScore.v) = PointsTotal(requirements)
        /\ \A other \in RootOrders(requirements) \cup {DeepReverse(requirements)} :
              ValueOf(CalculateMaxScoreOf(other)) = ValueOf(maxScore.v)
        /\ (~IsContainer(requirements) \/ requirements.items = <<>>)
              => maxScore.v = PInt(0)
        /\ requirements = ExampleTree => maxScore.v = PInt(8)

(***************************************************************************)
(* Claims about SectionDto                                                 *)
(***************************************************************************)

\* The current user's attempts at the section of the DTO, by finished_at.
UnfinishedAttempts(section_id) ==
    {id \in 1..Len(quizSessions) :
        /\ quizSessions[id].created_by = CurrentUser
        /\ quizSessions[id].section_id = section_id
        /\ quizSessions[id].finished_at.null}

FinishedAttempts(section_id) ==
    {id \in 1..Len(quizSessions) :
        /\ quizSessions[id].created_by = CurrentUser
        /\ quizSessions[id].section_id = section_id
        /\ ~quizSessions[id].finished_at.null}

\* C3: there_is_unfinished is true exactly when the current user has an
\* unfinished attempt at the section, the section is an exam and the test is
\* not retakeable; false in the seven other cases.
C3_ThereIsUnfinished ==
    ~sectionDto.null =>
        sectionDto.v.there_is_unfinished =
            ( /\ UnfinishedAttempts(sectionDto.v.section_id) # {}
              /\ sectionDto.v.is_exam
              /\ ~testRetakeable )

\* An exam of a test without retakes, the user has an unfinished attempt.
C3_Witness ==
    /\ ~sectionDto.null
    /\ sectionDto.v.there_is_unfinished
    /\ FinishedAttempts(sectionDto.v.section_id) # {}

\* C9: last_correct_count (and session_guid) is set only when the current
\* user has a finished attempt at the section, and then it is the number of
\* correct answers of the finished attempt with the greatest finished_at.
C9_LastFinishedAttempt ==
    ~sectionDto.null =>
        LET finished == FinishedAttempts(sectionDto.v.section_id)
            latest == {id \in finished : \A o \in finished :
                          quizSessions[o].finished_at.v
                              <= quizSessions[id].finished_at.v}
        IN  IF finished = {}
            THEN sectionDto.v.last_correct_count.null
                 /\ sectionDto.v.session_guid = <<>>
            ELSE \E id \in latest :
                    /\ sectionDto.v.last_correct_count = Some(CorrectCount(id))
                    /\ sectionDto.v.session_guid = GuidOfSession(id)

(***************************************************************************)
(* Claims about PracticeQuestionDto, one request at a time                 *)
(***************************************************************************)

\* The Network rows that are copies.
NetworkCopies == {r \in networks : r.description = "Network copy"}

\* C1: once a session question that had no network has been rendered, it is
\* bound to a guid other than the template's, exactly one Network row has
\* that guid, every render of it so far returned that guid, and there is one
\* copy per rendered session question: the first render made it and no later
\* one made another or changed the binding.
C1_CopyOnFirstRenderOnly ==
    /\ \A id \in DOMAIN sessionQuestions :
          renders[id] # <<>> =>
              /\ ~sessionQuestions[id].network_guid.null
              /\ sessionQuestions[id].network_guid.v # TemplateGuid
              /\ \A k \in 1..Len(renders[id]) :
                    renders[id][k] = sessionQuestions[id].network_guid.v
              /\ Cardinality({r \in networks :
                    r.guid = sessionQuestions[id].network_guid.v}) = 1
    /\ Cardinality(NetworkCopies)
          = Cardinality({id \in DOMAIN sessionQuestions : renders[id] # <<>>})

\* A session question rendered three times, another one rendered too.
C1_Witness ==
    /\ \E id \in DOMAIN renders : Len(renders[id]) >= 3
    /\ \A id \in DOMAIN renders : renders[id] # <<>>
    /\ DOMAIN renders # {}

\* The render refers to a missing entity: no such session question, or an
\* unbound one whose template network does not exist.
RefersToMissing(session_question_id) ==
    \/ session_question_id \notin DOMAIN sessionQuestions
    \/ /\ sessionQuestions[session_question_id].network_guid.null
       /\ NetworkByGuid(networks, PracticeQuestion.start_configuration).null

\* C10: a render that refers to a missing entity ends in a "not found" error,
\* creates no Network row and changes no binding.
C10_MissingIsNotFound ==
    [][ (practiceDto' # practiceDto
            /\ RefersToMissing(practiceDto'.v.session_question_id))
        => /\ practiceDto'.v.result = Raise("NotFound")
           /\ networks' = networks
           /\ sessionQuestions' = sessionQuestions ]_vars

(***************************************************************************)
(* Claims about QuestionDto                                                *)
(***************************************************************************)

\* The dict an answer is presented as, by the shape the type asks for.
PresentedAs(label, row) ==
    IF label = "matching" THEN [left |-> row.left, right |-> row.right]
    ELSE [variant |-> row.variant]

\* C7: for a question that is not a practice question, every dict appears in
\* the answers list as many times as the question has non-deleted answers
\* presented as that dict: the list is a permutation of them, with no deleted
\* answer and no answer of another question, whatever order the shuffle gave.
C7_AnswersArePermutation ==
    (~questionDto.null /\ questionDto.v.kind = "object"
        /\ questionDto.v.question_type # "practice") =>
        LET label == questionDto.v.question_type
            live == {k \in 1..Len(answers) :
                        /\ answers[k].question_id = questionDto.v.question_id
                        /\ ~answers[k].is_deleted}
        IN  /\ ~questionDto.v.answers.null
            /\ Len(questionDto.v.answers.v) = Cardinality(live)
            /\ \A row \in AnswerRows :
                  Cardinality({k \in 1..Len(questionDto.v.answers.v) :
                      questionDto.v.answers.v[k] = PresentedAs(label, row)})
                  = Cardinality({k \in live :
                      PresentedAs(label, answers[k]) = PresentedAs(label, row)})

\* Two answers rendered in the reverse of the table's order.
C7_Witness ==
    /\ ~questionDto.null /\ questionDto.v.kind = "object"
    /\ questionDto.v.question_type = "matching"
    /\ ~questionDto.v.answers.null
    /\ Len(answers) = 2
    /\ answers[1].left # answers[2].left
    /\ questionDto.v.answers.v = << PresentedAs("matching", answers[2]),
                                    PresentedAs("matching", answers[1]) >>

\* C4: for a question_type code the program does not know, the DTO has the
\* empty type label, no answers list and no practice_question.
C4_UnknownTypeAttachesNothing ==
    (~questionDto.null /\ questionDto.v.kind = "object"
        /\ questionDto.v.question_type = "") =>
        /\ questionDto.v.answers.null
        /\ questionDto.v.practice_question.null

(***************************************************************************)
(* Claims about PracticeQuestionDto, requests at the same time             *)
(***************************************************************************)

\* C2: two renders of the same session question that have both finished
\* expose the same network_guid, the one bound to the session question.
C2_ConcurrentRendersAgree ==
    \A r1, r2 \in Requests :
        ( /\ r1 # r2
          /\ procs[r1].pc = "done" /\ procs[r2].pc = "done"
          /\ procs[r1].session_question_id = procs[r2].session_question_id ) =>
            /\ procs[r1].result.v.network_guid = procs[r2].result.v.network_guid
            /\ sessionQuestions[procs[r1].session_question_id].network_guid
                  = Some(procs[r1].result.v.network_guid)

====
